---- MODULE Spec2Model ----
(***************************************************************************)
(* A model of src/src/pim_audit.py: the PIM audit run (main), the paginated*)
(* Graph fetch (gget_all), the role-name resolver (role_name with its      *)
(* cache), the GitHub preflight (gh_self_check) and ticket creation        *)
(* (create_issue).                                                         *)
(*                                                                         *)
(* Time is counted in minutes.  A timestamp string is modelled by what     *)
(* datetime.fromisoformat makes of it: kind "none" (missing or empty),     *)
(* kind "bad" (present, not parseable) or kind "ok" with the instant t.    *)
(* The directory returns UTC timestamps with an explicit offset, so an     *)
(* offset-naive timestamp is not among the inputs.                         *)
(***************************************************************************)
EXTENDS Integers, Sequences, FiniteSets, TLC

\* ---------------------------------------------------------------- bounds
\* the directory holds at most MaxRecords records over its three collections
MaxRecords == 2
\* gget_all retries a throttled request without limit; the model lets the
\* directory throttle at most MaxThrottle times per gget_all call
MaxThrottle == 1

\* ------------------------------------------------------ program constants
MAX_ACTIVATION_HOURS == 8
WINDOW_DAYS == 30

PRIV_ROLES ==
  { "Global Administrator", "Privileged Role Administrator",
    "Security Administrator", "Conditional Access Administrator",
    "Application Administrator", "Cloud Application Administrator",
    "Exchange Administrator", "SharePoint Administrator" }

\* ------------------------------------------------------------ environment
Principals == {"p1", "p2"}
\* role definition ids of the tenant and the display names the directory
\* holds for them: one privileged role, one that is not
RoleIds == {"rd-ga", "rd-reader"}
DisplayName(id) ==
  IF id = "rd-ga" THEN "Global Administrator" ELSE "Directory Readers"

\* datetime.now(timezone.utc), in minutes
NowT == WINDOW_DAYS * 24 * 60 + 600

NoTime == [kind |-> "none", t |-> 0]
BadTime == [kind |-> "bad", t |-> 0]
At(t) == [kind |-> "ok", t |-> t]

\* since_dt = now - timedelta(days=WINDOW_DAYS)
SinceT == NowT - WINDOW_DAYS * 24 * 60

AssignU == [principalId : Principals, roleDefinitionId : RoleIds]
\* The start and end of an activation instance.  endDateTime is read only
\* for instances that passed the window filter, so the out-of-window and
\* unparseable starts come with one end each.  The activations are p1's:
\* main treats all principals alike, and the assignments and eligibilities
\* are of both principals, so that a key differs from an activation's by
\* its principal, by its role, or not at all.
InstTimes ==
  { <<NoTime, At(SinceT + 570)>>, <<BadTime, At(SinceT + 570)>>,
    <<At(SinceT - 1), At(SinceT + 569)>> }
  \cup
  { <<At(SinceT), e>> :
      e \in {NoTime, BadTime, At(SinceT + 480), At(SinceT + 570)} }
InstU ==
  { [principalId |-> p, roleDefinitionId |-> r,
     startDateTime |-> se[1], endDateTime |-> se[2]] :
      p \in {"p1"}, r \in RoleIds, se \in InstTimes }

SeqsOf(S, n) == [1..n -> S]

\* the roleDefinitions collection of the directory
DefsContent ==
  << [id |-> "rd-ga", displayName |-> DisplayName("rd-ga")],
     [id |-> "rd-reader", displayName |-> DisplayName("rd-reader")] >>

NoParams == "none"
\* a query such as $filter=principalId eq 'p1'
FilterP1 == "filter-p1"

VARIABLES
  pc,         \* position of the run in main()
  run,        \* 1 for the first run, 2 for the run after an instance was added
  srv,        \* the directory's collections: assign, elig, inst
  target,     \* run 2: index of the eligibility that was stale in run 1 (else 0)
  g,          \* gget_all's locals: url, params, items, and the requests made
  gh_ok,      \* main's gh_ok
  r,          \* gh_self_check's locals: the responses of whoami and repo
  assignments, eligibles, inst_all, inst,
  cache,      \* _role_name_by_id
  inst_keys, recent_keys,
  permanent, stale, long_acts,
  k,          \* loop index of the loop main is in
  rn,         \* what role_name returned and how, per loop and record
  metrics,
  out         \* what the run produced: snapshot, csv, POSTs, dry runs

vars == << pc, run, srv, target, g, gh_ok, r, assignments, eligibles,
           inst_all, inst, cache, inst_keys, recent_keys, permanent, stale,
           long_acts, k, rn, metrics, out >>

\* ------------------------------------------------------------- gget_all
FetchPCs == {"fetch_assign", "fetch_elig", "fetch_inst", "load_defs", "gget_all"}

NoUrl == [path |-> "none", query |-> NoParams, skip |-> 0]
NoReq == [url |-> NoUrl, params |-> NoParams, status |-> 0]

GIdle ==
  [url |-> NoUrl, live |-> FALSE, params |-> NoParams, params0 |-> NoParams,
   items |-> <<>>, throttled |-> 0, prev |-> NoReq, last |-> NoReq]

\* url = GRAPH + path; items = []
GgetEntry(path, params) ==
  [GIdle EXCEPT !.url = [path |-> path, query |-> NoParams, skip |-> 0],
                !.live = TRUE, !.params = params, !.params0 = params]

\* the query a request carries: requests.get appends params to the url, and
\* an @odata.nextLink carries the query of the request that produced it
Effective(url, params) == IF params # NoParams THEN params ELSE url.query

\* what the directory holds under a path and a query
Content(path, query) ==
  LET all == CASE path = "assign" -> srv.assign
               [] path = "elig" -> srv.elig
               [] path = "inst" -> srv.inst
               [] OTHER -> DefsContent
  IN IF query = FilterP1
       THEN SelectSeq(all, LAMBDA x : x.principalId = "p1")
       ELSE all

\* params = None, line 66: it follows every request, throttled or not
ParamsAfterRequest(params) == NoParams

Requested(status) == [url |-> g.url, params |-> g.params, status |-> status]

\* lines 65-70: r.status_code == 429: sleep and continue
Gget429 ==
  /\ pc \in FetchPCs
  /\ g.live
  /\ g.throttled < MaxThrottle
  /\ g' = [g EXCEPT !.params = ParamsAfterRequest(g.params),
                    !.throttled = g.throttled + 1,
                    !.prev = g.last, !.last = Requested(429)]
  /\ UNCHANGED << pc, run, srv, target, gh_ok, r, assignments, eligibles,
                  inst_all, inst, cache, inst_keys, recent_keys, permanent,
                  stale, long_acts, k, rn, metrics, out >>

\* a variant that catches the exception in main and goes on with no items
AfterRaiseSwallowed(at) ==
  CASE at = "load_defs" -> "inst_keys"
    [] at = "gget_all" -> "raised"
    [] OTHER -> "filter_inst"

\* where an exception of gget_all lands: load_all_role_definitions catches
\* it (lines 154-155), main does not
AfterRaise(at) ==
  CASE at = "load_defs" -> "inst_keys"
    [] at = "gget_all" -> "raised"
    [] OTHER -> "fetch_failed"

\* lines 71-74: any other status >= 400: r.raise_for_status()
GgetError ==
  /\ pc \in FetchPCs
  /\ g.live
  /\ pc' = AfterRaise(pc)
  /\ g' = IF pc = "load_defs"
            THEN GIdle
            ELSE [g EXCEPT !.live = FALSE, !.items = <<>>,
                           !.prev = g.last, !.last = Requested(500)]
  /\ UNCHANGED << run, srv, target, gh_ok, r, assignments, eligibles,
                  inst_all, inst, cache, inst_keys, recent_keys, permanent,
                  stale, long_acts, k, rn, metrics, out >>

\* lines 75-77: a page: items.extend(value); url = @odata.nextLink
GgetPage ==
  /\ pc \in FetchPCs
  /\ g.live
  /\ LET q == Effective(g.url, g.params)
         c == Content(g.url.path, q)
         left == Len(c) - g.url.skip
     IN \E n \in (IF left <= 0 THEN {0} ELSE 1..left) :
          LET upto == g.url.skip + n
              value == SubSeq(c, g.url.skip + 1, upto)
          IN g' = [g EXCEPT
                     !.params = ParamsAfterRequest(g.params),
                     !.items = g.items \o value,
                     !.url = IF upto < Len(c)
                               THEN [path |-> g.url.path, query |-> q,
                                     skip |-> upto]
                               ELSE NoUrl,
                     !.live = upto < Len(c),
                     !.prev = g.last, !.last = Requested(200)]
  /\ UNCHANGED << pc, run, srv, target, gh_ok, r, assignments, eligibles,
                  inst_all, inst, cache, inst_keys, recent_keys, permanent,
                  stale, long_acts, k, rn, metrics, out >>

\* line 152: _role_name_by_id.update({d["id"]: d.get("displayName","")})
CacheUpdate(c, defs) ==
  [id \in RoleIds |->
     IF \E i \in 1..Len(defs) : defs[i].id = id
       THEN (CHOOSE d \in {defs[i] : i \in 1..Len(defs)} : d.id = id).displayName
       ELSE c[id]]

\* line 78, return items, and the caller's assignment of the result:
\* lines 179, 180, 184 of main, line 152 of load_all_role_definitions
GgetReturn ==
  /\ pc \in FetchPCs
  /\ ~g.live
  /\ pc' = CASE pc = "fetch_assign" -> "fetch_elig"
             [] pc = "fetch_elig" -> "fetch_inst"
             [] pc = "fetch_inst" -> "filter_inst"
             [] pc = "load_defs" -> "inst_keys"
             [] OTHER -> "returned"
  /\ assignments' = IF pc = "fetch_assign" THEN g.items ELSE assignments
  /\ eligibles' = IF pc = "fetch_elig" THEN g.items ELSE eligibles
  /\ inst_all' = IF pc = "fetch_inst" THEN g.items ELSE inst_all
  /\ cache' = IF pc = "load_defs" THEN CacheUpdate(cache, g.items) ELSE cache
  /\ g' = CASE pc = "fetch_assign" -> GgetEntry("elig", NoParams)
            [] pc = "fetch_elig" -> GgetEntry("inst", NoParams)
            [] pc = "gget_all" -> g
            [] OTHER -> GIdle
  /\ UNCHANGED << run, srv, target, gh_ok, r, inst, inst_keys, recent_keys,
                  permanent, stale, long_acts, k, rn, metrics, out >>

\* ------------------------------------------------------- initial states
NoName == "<absent>"
NoResp == [status |-> 0, has_issues |-> TRUE]
NoMetrics ==
  [active_privileged_assignments |-> 0, eligible_privileged_users |-> 0,
   activations |-> 0, permanent_privileged_assignments |-> 0,
   stale_eligibilities |-> 0, long_activations |-> 0]
NoOut == [snapshot |-> FALSE, csv |-> FALSE, posts |-> 0, dry |-> 0]
NoRn == [perm |-> <<>>, stale |-> <<>>, long |-> <<>>,
         metrics_a |-> <<>>, metrics_e |-> <<>>]

\* every record has the id the directory gave it: here its collection and
\* its position in it
WithIds(tag, recs) == [i \in DOMAIN recs |-> [id |-> <<tag, i>>] @@ recs[i]]

Directories ==
  UNION { { [assign |-> WithIds("assign", a), elig |-> WithIds("elig", e),
              inst |-> WithIds("inst", i)] :
              a \in SeqsOf(AssignU, c[1]), e \in SeqsOf(AssignU, c[2]),
              i \in SeqsOf(InstU, c[3]) } :
            c \in { d \in (0..MaxRecords) \X (0..MaxRecords) \X (0..MaxRecords) :
                      d[1] + d[2] + d[3] <= MaxRecords } }

\* the state of a fresh process: every module-level and local name as the
\* interpreter has it before main() runs
Fresh ==
  /\ gh_ok = FALSE
  /\ r = NoResp
  /\ assignments = <<>> /\ eligibles = <<>> /\ inst_all = <<>> /\ inst = <<>>
  /\ cache = [id \in RoleIds |-> NoName]
  /\ inst_keys = {} /\ recent_keys = {}
  /\ permanent = <<>> /\ stale = <<>> /\ long_acts = <<>>
  /\ k = 0
  /\ rn = NoRn
  /\ metrics = NoMetrics
  /\ out = NoOut

\* gget_all alone, called with any path and with or without query parameters
InitFetch ==
  /\ pc = "gget_all"
  /\ run = 1
  /\ target = 0
  /\ srv \in Directories
  /\ \E path \in {"assign", "elig", "inst"}, params \in {NoParams, FilterP1} :
       g = GgetEntry(path, params)
  /\ Fresh

NextFetch == Gget429 \/ GgetError \/ GgetPage \/ GgetReturn

SpecFetch == InitFetch /\ [][NextFetch]_vars

\* ------------------------------------------------------- gh_self_check
\* main(), lines 172-179: a fresh process enters gh_self_check
Init ==
  /\ pc = "gh_self_check"
  /\ run = 1
  /\ target = 0
  /\ srv \in Directories
  /\ g = GIdle
  /\ Fresh

\* lines 88-90: no token or repository configured: DRY RUN, return False
GhNotConfigured ==
  /\ pc = "gh_self_check"
  /\ gh_ok' = FALSE
  /\ pc' = "fetch_assign"
  /\ g' = GgetEntry("assign", NoParams)
  /\ UNCHANGED << run, srv, target, r, assignments, eligibles, inst_all, inst,
                  cache, inst_keys, recent_keys, permanent, stale, long_acts,
                  k, rn, metrics, out >>

\* line 95: r = requests.get(f"{GITHUB}/user")
GhWhoami ==
  /\ pc = "gh_self_check"
  /\ \E status \in {200, 401, 403} :
       r' = [status |-> status, has_issues |-> TRUE]
  /\ pc' = "gh_whoami"
  /\ UNCHANGED << run, srv, target, g, gh_ok, assignments, eligibles, inst_all,
                  inst, cache, inst_keys, recent_keys, permanent, stale,
                  long_acts, k, rn, metrics, out >>

\* line 96: the whoami check fails on 401 only
WhoamiFails(resp) == resp.status = 401

\* lines 96-101: 401 Bad credentials: return False
GhWhoamiBad ==
  /\ pc = "gh_whoami"
  /\ WhoamiFails(r)
  /\ gh_ok' = FALSE
  /\ r' = NoResp
  /\ pc' = "fetch_assign"
  /\ g' = GgetEntry("assign", NoParams)
  /\ UNCHANGED << run, srv, target, assignments, eligibles, inst_all, inst,
                  cache, inst_keys, recent_keys, permanent, stale, long_acts,
                  k, rn, metrics, out >>

\* lines 102-107: token accepted; r2 = requests.get(repo_url)
GhRepo ==
  /\ pc = "gh_whoami"
  /\ ~WhoamiFails(r)
  /\ \E resp \in { [status |-> 200, has_issues |-> TRUE],
                   [status |-> 200, has_issues |-> FALSE],
                   [status |-> 404, has_issues |-> TRUE] } :
       r' = resp
  /\ pc' = "gh_repo"
  /\ UNCHANGED << run, srv, target, g, gh_ok, assignments, eligibles, inst_all,
                  inst, cache, inst_keys, recent_keys, permanent, stale,
                  long_acts, k, rn, metrics, out >>

\* a variant that does not look at has_issues
RepoOkIgnoringIssues(resp) == resp.status < 400

\* lines 108-119: the repository is reachable and has Issues enabled
RepoOk(resp) == resp.status < 400 /\ resp.has_issues

\* lines 108-119: return False for an unreachable repository or disabled
\* Issues, True otherwise; line 175 binds gh_ok
GhRepoEval ==
  /\ pc = "gh_repo"
  /\ gh_ok' = RepoOk(r)
  /\ r' = NoResp
  /\ pc' = "fetch_assign"
  /\ g' = GgetEntry("assign", NoParams)
  /\ UNCHANGED << run, srv, target, assignments, eligibles, inst_all, inst,
                  cache, inst_keys, recent_keys, permanent, stale, long_acts,
                  k, rn, metrics, out >>

\* --------------------------------------------------- window and resolver
\* _parse_iso, lines 186-189: None for a missing or unparseable string
ParsesOk(ts) == ts.kind = "ok"

\* a variant with s > since_dt
InWindowStrict(i) == ParsesOk(i.startDateTime) /\ i.startDateTime.t > SinceT

\* line 191: (s := _parse_iso(startDateTime)) and s >= since_dt
InWindow(i) == ParsesOk(i.startDateTime) /\ i.startDateTime.t >= SinceT

\* line 191: inst = [i for i in inst_all if ...]
FilterInst ==
  /\ pc = "filter_inst"
  /\ inst' = SelectSeq(inst_all, InWindow)
  /\ pc' = "load_defs"
  /\ g' = GgetEntry("defs", NoParams)
  /\ UNCHANGED << run, srv, target, gh_ok, r, assignments, eligibles, inst_all,
                  cache, inst_keys, recent_keys, permanent, stale, long_acts,
                  k, rn, metrics, out >>

\* a variant that keys on the role alone
KeyByRole(x) == << x.roleDefinitionId >>

\* (principalId, roleDefinitionId), lines 204, 210, 220, 225
Key(x) == << x.principalId, x.roleDefinitionId >>

KeysOf(recs) == { Key(recs[i]) : i \in DOMAIN recs }

\* line 204: inst_keys = {...for i in inst}; line 206: permanent = []
BuildInstKeys ==
  /\ pc = "inst_keys"
  /\ inst_keys' = KeysOf(inst)
  /\ permanent' = <<>>
  /\ k' = 1
  /\ pc' = "perm"
  /\ UNCHANGED << run, srv, target, g, gh_ok, r, assignments, eligibles,
                  inst_all, inst, cache, recent_keys, stale, long_acts, rn,
                  metrics, out >>

\* a variant whose fallback is the empty string
RoleNameEmptyFallback(id, c) ==
  IF id = "" THEN { [name |-> "", src |-> "empty", cache |-> c] }
  ELSE IF c[id] # NoName
    THEN { [name |-> c[id], src |-> "cache", cache |-> c] }
    ELSE { [name |-> DisplayName(id), src |-> "fetched",
            cache |-> [c EXCEPT ![id] = DisplayName(id)]],
           [name |-> "", src |-> "fallback", cache |-> c] }

\* a variant that does not write the name it fetched to the cache
RoleNameNoCacheWrite(id, c) ==
  IF id = "" THEN { [name |-> "", src |-> "empty", cache |-> c] }
  ELSE IF c[id] # NoName
    THEN { [name |-> c[id], src |-> "cache", cache |-> c] }
    ELSE { [name |-> DisplayName(id), src |-> "fetched", cache |-> c],
           [name |-> id, src |-> "fallback", cache |-> c] }

\* role_name, lines 157-169, as the set of its outcomes: the name returned,
\* where it came from, and the cache afterwards
RoleName(id, c) ==
  IF id = "" THEN { [name |-> "", src |-> "empty", cache |-> c] }
  ELSE IF c[id] # NoName
    THEN { [name |-> c[id], src |-> "cache", cache |-> c] }
    ELSE { [name |-> DisplayName(id), src |-> "fetched",
            cache |-> [c EXCEPT ![id] = DisplayName(id)]],
           [name |-> id, src |-> "fallback", cache |-> c] }

\* a variant that takes every resolved name for privileged
IsPrivilegedAny(rname) == rname # ""

\* rname in PRIV_ROLES, lines 209, 224, 238, 259, 260
IsPrivileged(rname) == rname \in PRIV_ROLES

\* upn, lines 196-202: the userPrincipalName, or the principal id when the
\* lookup fails
UserPrincipalName(pid) == IF pid = "p1" THEN "p1@corp.example" ELSE "p2@corp.example"
Upn(pid) == IF pid = "" THEN {""} ELSE {UserPrincipalName(pid), pid}

Resolved(o) == [name |-> o.name, src |-> o.src]

\* ------------------------------------------------------- classification
\* a variant with the test inverted
KeyAbsentInverted(key, keys) == key \in keys

\* line 211, line 226: key not in inst_keys / recent_keys
KeyAbsent(key, keys) == key \notin keys

\* lines 207-218: one iteration of the loop over assignments
PermStep ==
  /\ pc = "perm"
  /\ k <= Len(assignments)
  /\ LET a == assignments[k]
     IN \E o \in RoleName(a.roleDefinitionId, cache), u \in Upn(a.principalId) :
          /\ cache' = o.cache
          /\ rn' = [rn EXCEPT !.perm = Append(@, Resolved(o))]
          /\ permanent' =
               IF IsPrivileged(o.name) /\ KeyAbsent(Key(a), inst_keys)
                 THEN Append(permanent,
                        [principalId |-> a.principalId, principalUPN |-> u,
                         role |-> o.name, id |-> a.id])
                 ELSE permanent
  /\ k' = k + 1
  /\ UNCHANGED << pc, run, srv, target, g, gh_ok, r, assignments, eligibles,
                  inst_all, inst, inst_keys, recent_keys, stale, long_acts,
                  metrics, out >>

\* line 220: recent_keys = {...for i in inst}; line 221: stale = []
PermEnd ==
  /\ pc = "perm"
  /\ k > Len(assignments)
  /\ recent_keys' = KeysOf(inst)
  /\ stale' = <<>>
  /\ k' = 1
  /\ pc' = "stale"
  /\ UNCHANGED << run, srv, target, g, gh_ok, r, assignments, eligibles,
                  inst_all, inst, cache, inst_keys, permanent, long_acts, rn,
                  metrics, out >>

\* lines 222-233: one iteration of the loop over eligibles
StaleStep ==
  /\ pc = "stale"
  /\ k <= Len(eligibles)
  /\ LET e == eligibles[k]
     IN \E o \in RoleName(e.roleDefinitionId, cache), u \in Upn(e.principalId) :
          /\ cache' = o.cache
          /\ rn' = [rn EXCEPT !.stale = Append(@, Resolved(o))]
          /\ stale' =
               IF IsPrivileged(o.name) /\ KeyAbsent(Key(e), recent_keys)
                 THEN Append(stale,
                        [principalId |-> e.principalId, principalUPN |-> u,
                         role |-> o.name, id |-> e.id])
                 ELSE stale
  /\ k' = k + 1
  /\ UNCHANGED << pc, run, srv, target, g, gh_ok, r, assignments, eligibles,
                  inst_all, inst, inst_keys, recent_keys, permanent, long_acts,
                  metrics, out >>

\* line 235: long_acts = []
StaleEnd ==
  /\ pc = "stale"
  /\ k > Len(eligibles)
  /\ long_acts' = <<>>
  /\ k' = 1
  /\ pc' = "long"
  /\ UNCHANGED << run, srv, target, g, gh_ok, r, assignments, eligibles,
                  inst_all, inst, cache, inst_keys, recent_keys, permanent,
                  stale, rn, metrics, out >>

\* lines 239-243: start and end are present and fromisoformat takes both
HasDuration(i) ==
  /\ i.startDateTime.kind # "none" /\ i.endDateTime.kind # "none"
  /\ ParsesOk(i.startDateTime) /\ ParsesOk(i.endDateTime)

\* (e - s), in minutes
Minutes(i) == i.endDateTime.t - i.startDateTime.t

\* a variant with hours >= MAX_ACTIVATION_HOURS
IsLongInclusive(minutes) == minutes >= MAX_ACTIVATION_HOURS * 60

\* line 245: hours > MAX_ACTIVATION_HOURS, hours = total_seconds()/3600.0
IsLong(minutes) == minutes > MAX_ACTIVATION_HOURS * 60

\* the integer nearest to n/d, a tie going to the even one, for n >= 0
RoundHalfEven(n, d) ==
  LET q == n \div d
      rem == n % d
  IN IF 2 * rem < d THEN q
     ELSE IF 2 * rem > d THEN q + 1
     ELSE IF q % 2 = 0 THEN q ELSE q + 1

\* line 251: round(hours, 2), as a number of hundredths of an hour
Hours100(minutes) == RoundHalfEven(minutes * 100, 60)

\* lines 236-254: one iteration of the loop over inst
LongStep ==
  /\ pc = "long"
  /\ k <= Len(inst)
  /\ LET i == inst[k]
     IN \E o \in RoleName(i.roleDefinitionId, cache), u \in Upn(i.principalId) :
          /\ cache' = o.cache
          /\ rn' = [rn EXCEPT !.long = Append(@, Resolved(o))]
          /\ long_acts' =
               IF IsPrivileged(o.name) /\ HasDuration(i) /\ IsLong(Minutes(i))
                 THEN Append(long_acts,
                        [principalId |-> i.principalId, principalUPN |-> u,
                         role |-> o.name, id |-> i.id,
                         start |-> i.startDateTime, end |-> i.endDateTime,
                         hours |-> Hours100(Minutes(i))])
                 ELSE long_acts
  /\ k' = k + 1
  /\ UNCHANGED << pc, run, srv, target, g, gh_ok, r, assignments, eligibles,
                  inst_all, inst, inst_keys, recent_keys, permanent, stale,
                  metrics, out >>

\* line 256: the metrics dict is begun
LongEnd ==
  /\ pc = "long"
  /\ k > Len(inst)
  /\ metrics' = NoMetrics
  /\ k' = 1
  /\ pc' = "metrics_a"
  /\ UNCHANGED << run, srv, target, g, gh_ok, r, assignments, eligibles,
                  inst_all, inst, cache, inst_keys, recent_keys, permanent,
                  stale, long_acts, rn, out >>

\* ---------------------------------------------------------------- metrics
\* line 259: one term of sum(1 for a in assignments if role_name(...) in PRIV_ROLES)
MetricsAssignStep ==
  /\ pc = "metrics_a"
  /\ k <= Len(assignments)
  /\ \E o \in RoleName(assignments[k].roleDefinitionId, cache) :
       /\ cache' = o.cache
       /\ rn' = [rn EXCEPT !.metrics_a = Append(@, Resolved(o))]
       /\ metrics' =
            [metrics EXCEPT !.active_privileged_assignments =
               IF IsPrivileged(o.name) THEN @ + 1 ELSE @]
  /\ k' = k + 1
  /\ UNCHANGED << pc, run, srv, target, g, gh_ok, r, assignments, eligibles,
                  inst_all, inst, inst_keys, recent_keys, permanent, stale,
                  long_acts, out >>

MetricsAssignEnd ==
  /\ pc = "metrics_a"
  /\ k > Len(assignments)
  /\ k' = 1
  /\ pc' = "metrics_e"
  /\ UNCHANGED << run, srv, target, g, gh_ok, r, assignments, eligibles,
                  inst_all, inst, cache, inst_keys, recent_keys, permanent,
                  stale, long_acts, rn, metrics, out >>

\* line 260: one term of sum(1 for e in eligibles if role_name(...) in PRIV_ROLES)
MetricsEligStep ==
  /\ pc = "metrics_e"
  /\ k <= Len(eligibles)
  /\ \E o \in RoleName(eligibles[k].roleDefinitionId, cache) :
       /\ cache' = o.cache
       /\ rn' = [rn EXCEPT !.metrics_e = Append(@, Resolved(o))]
       /\ metrics' =
            [metrics EXCEPT !.eligible_privileged_users =
               IF IsPrivileged(o.name) THEN @ + 1 ELSE @]
  /\ k' = k + 1
  /\ UNCHANGED << pc, run, srv, target, g, gh_ok, r, assignments, eligibles,
                  inst_all, inst, inst_keys, recent_keys, permanent, stale,
                  long_acts, out >>

\* lines 261-265: the four lengths
MetricsEligEnd ==
  /\ pc = "metrics_e"
  /\ k > Len(eligibles)
  /\ metrics' = [metrics EXCEPT
                   !.activations = Len(inst),
                   !.permanent_privileged_assignments = Len(permanent),
                   !.stale_eligibilities = Len(stale),
                   !.long_activations = Len(long_acts)]
  /\ pc' = "write_snapshot"
  /\ UNCHANGED << run, srv, target, g, gh_ok, r, assignments, eligibles,
                  inst_all, inst, cache, inst_keys, recent_keys, permanent,
                  stale, long_acts, k, rn, out >>

\* ------------------------------------------------------ reports, tickets
\* lines 267-271: json.dump of the metrics and the three lists
WriteSnapshot ==
  /\ pc = "write_snapshot"
  /\ out' = [out EXCEPT !.snapshot = TRUE]
  /\ pc' = "write_csv"
  /\ UNCHANGED << run, srv, target, g, gh_ok, r, assignments, eligibles,
                  inst_all, inst, cache, inst_keys, recent_keys, permanent,
                  stale, long_acts, k, rn, metrics >>

\* lines 273-276: the three CSV exports
WriteCsv ==
  /\ pc = "write_csv"
  /\ out' = [out EXCEPT !.csv = TRUE]
  /\ k' = 1
  /\ pc' = "issues"
  /\ UNCHANGED << run, srv, target, g, gh_ok, r, assignments, eligibles,
                  inst_all, inst, cache, inst_keys, recent_keys, permanent,
                  stale, long_acts, rn, metrics >>

\* lines 279-292: one create_issue call per record of the three lists
Violations == Len(permanent) + Len(stale) + Len(long_acts)

\* line 122: if not enabled: the call is a dry run
Posts(enabled) == enabled

\* lines 122-123: [DRY RUN] Would create issue
IssueDryRun ==
  /\ pc = "issues"
  /\ k <= Violations
  /\ ~Posts(gh_ok)
  /\ out' = [out EXCEPT !.dry = @ + 1]
  /\ k' = k + 1
  /\ UNCHANGED << pc, run, srv, target, g, gh_ok, r, assignments, eligibles,
                  inst_all, inst, cache, inst_keys, recent_keys, permanent,
                  stale, long_acts, rn, metrics >>

\* lines 124-132: the POST is answered with a status below 400
IssuePost ==
  /\ pc = "issues"
  /\ k <= Violations
  /\ Posts(gh_ok)
  /\ out' = [out EXCEPT !.posts = @ + 1]
  /\ k' = k + 1
  /\ UNCHANGED << pc, run, srv, target, g, gh_ok, r, assignments, eligibles,
                  inst_all, inst, cache, inst_keys, recent_keys, permanent,
                  stale, long_acts, rn, metrics >>

\* lines 127-131: the POST is answered with a status >= 400:
\* r.raise_for_status() ends the run
IssuePostError ==
  /\ pc = "issues"
  /\ k <= Violations
  /\ Posts(gh_ok)
  /\ out' = [out EXCEPT !.posts = @ + 1]
  /\ pc' = "post_failed"
  /\ UNCHANGED << run, srv, target, g, gh_ok, r, assignments, eligibles,
                  inst_all, inst, cache, inst_keys, recent_keys, permanent,
                  stale, long_acts, k, rn, metrics >>

\* lines 294-295: the summary is printed and main returns
IssuesEnd ==
  /\ pc = "issues"
  /\ k > Violations
  /\ pc' = "done"
  /\ UNCHANGED << run, srv, target, g, gh_ok, r, assignments, eligibles,
                  inst_all, inst, cache, inst_keys, recent_keys, permanent,
                  stale, long_acts, k, rn, metrics, out >>

\* lines 297-298: the tool is run again, in a new process, after the
\* directory gained one in-window activation of an eligibility that the
\* first run reported stale
Rerun ==
  /\ pc = "done"
  /\ run = 1
  /\ \E j \in 1..Len(stale),
        e \in {NoTime, BadTime, At(SinceT + 480), At(SinceT + 570)} :
       LET el == eligibles[stale[j].id[2]]
       IN /\ target' = el.id[2]
          /\ srv' = [srv EXCEPT !.inst =
                       Append(@, [id |-> <<"inst", Len(srv.inst) + 1>>,
                                  principalId |-> el.principalId,
                                  roleDefinitionId |-> el.roleDefinitionId,
                                  startDateTime |-> At(SinceT),
                                  endDateTime |-> e])]
  /\ run' = 2
  /\ pc' = "gh_self_check"
  /\ g' = GIdle
  /\ gh_ok' = FALSE
  /\ r' = NoResp
  /\ assignments' = <<>> /\ eligibles' = <<>> /\ inst_all' = <<>> /\ inst' = <<>>
  /\ cache' = [id \in RoleIds |-> NoName]
  /\ inst_keys' = {} /\ recent_keys' = {}
  /\ permanent' = <<>> /\ stale' = <<>> /\ long_acts' = <<>>
  /\ k' = 0
  /\ rn' = NoRn
  /\ metrics' = NoMetrics
  /\ out' = NoOut

Next ==
  \/ GhNotConfigured \/ GhWhoami \/ GhWhoamiBad \/ GhRepo \/ GhRepoEval
  \/ Gget429 \/ GgetError \/ GgetPage \/ GgetReturn
  \/ FilterInst \/ BuildInstKeys
  \/ PermStep \/ PermEnd \/ StaleStep \/ StaleEnd \/ LongStep \/ LongEnd
  \/ MetricsAssignStep \/ MetricsAssignEnd \/ MetricsEligStep \/ MetricsEligEnd
  \/ WriteSnapshot \/ WriteCsv
  \/ IssueDryRun \/ IssuePost \/ IssuePostError \/ IssuesEnd
  \/ Rerun

Spec == Init /\ [][Next]_vars

\* =================================================================
\* Properties
\* =================================================================
Ids(list) == { list[j].id : j \in DOMAIN list }
Listed(id) == id \in Ids(permanent) \cup Ids(stale) \cup Ids(long_acts)
Entry(list, id) == CHOOSE x \in { list[j] : j \in DOMAIN list } : x.id = id

\* the keys of the fetched instances that start at or after now - 30 days
WindowKeys ==
  { << inst_all[j].principalId, inst_all[j].roleDefinitionId >> :
      j \in { n \in DOMAIN inst_all :
                /\ inst_all[n].startDateTime.kind = "ok"
                /\ inst_all[n].startDateTime.t >= NowT - 30 * 24 * 60 } }

\* C1: a record whose role name, as role_name resolved it in its
\* classification loop, is not one of PRIV_ROLES is in none of the lists
\* permanent, stale and long_acts.
C1_NonPrivilegedNeverListed ==
  /\ \A j \in DOMAIN rn.perm :
       rn.perm[j].name \notin PRIV_ROLES => ~Listed(assignments[j].id)
  /\ \A j \in DOMAIN rn.stale :
       rn.stale[j].name \notin PRIV_ROLES => ~Listed(eligibles[j].id)
  /\ \A j \in DOMAIN rn.long :
       rn.long[j].name \notin PRIV_ROLES => ~Listed(inst[j].id)

\* the run is over; an assignment, an eligibility and an in-window 9.5 h
\* activation of a role that is not privileged would each be listed, were
\* the role privileged
C1_Witness ==
  /\ pc = "done"
  /\ \E j \in DOMAIN rn.perm :
       /\ rn.perm[j].name = "Directory Readers"
       /\ << assignments[j].principalId, assignments[j].roleDefinitionId >>
            \notin inst_keys
  /\ \E j \in DOMAIN rn.long :
       /\ rn.long[j].name = "Directory Readers"
       /\ inst[j].endDateTime = At(SinceT + 570)

\* C2: an assignment that role_name resolved to a privileged name is in
\* permanent exactly when its (principalId, roleDefinitionId) is the key of
\* no in-window instance.
C2_PermanentIffKeyAbsent ==
  \A j \in DOMAIN rn.perm :
    rn.perm[j].name \in PRIV_ROLES =>
      ( assignments[j].id \in Ids(permanent)
        <=> << assignments[j].principalId, assignments[j].roleDefinitionId >>
              \notin WindowKeys )

\* the run is over; a privileged assignment whose exact key has an in-window
\* instance was classified and is not in permanent
C2_Witness ==
  /\ pc = "done"
  /\ \E j \in DOMAIN rn.perm :
       /\ rn.perm[j].name \in PRIV_ROLES
       /\ << assignments[j].principalId, assignments[j].roleDefinitionId >>
            \in WindowKeys
       /\ assignments[j].id \notin Ids(permanent)

\* C3: an eligibility that role_name resolved to a privileged name is in
\* stale exactly when its key is the key of no in-window instance; and in the
\* run after one matching in-window instance was added to the directory, the
\* eligibility that was stale is not in stale.
C3_StaleIffKeyAbsent ==
  /\ \A j \in DOMAIN rn.stale :
       rn.stale[j].name \in PRIV_ROLES =>
         ( eligibles[j].id \in Ids(stale)
           <=> << eligibles[j].principalId, eligibles[j].roleDefinitionId >>
                 \notin WindowKeys )
  /\ (run = 2 /\ pc \in {"stale", "long", "metrics_a", "metrics_e",
                         "write_snapshot", "write_csv", "issues", "done",
                         "post_failed"})
       => << "elig", target >> \notin Ids(stale)

\* the second run has classified, as privileged, the eligibility that the
\* first run reported stale
C3_Witness ==
  /\ run = 2
  /\ pc = "done"
  /\ target \in DOMAIN rn.stale
  /\ rn.stale[target].name \in PRIV_ROLES

\* the positions of main() after line 191, after line 204 and after line 220
AfterFilter ==
  {"load_defs", "inst_keys", "perm", "stale", "long", "metrics_a",
   "metrics_e", "write_snapshot", "write_csv", "issues", "done", "post_failed"}
AfterInstKeys == AfterFilter \ {"load_defs", "inst_keys"}
AfterRecentKeys == AfterInstKeys \ {"perm"}
AfterLong == AfterRecentKeys \ {"stale", "long"}

\* C4: an instance that starts before now - WINDOW_DAYS is not in inst,
\* gives its key to neither inst_keys nor recent_keys and is not in
\* long_acts; an instance that starts exactly at now - WINDOW_DAYS is in inst,
\* its key is in inst_keys and in recent_keys, and the long-activation loop
\* has looked at it.
C4_WindowBoundary ==
  pc \in AfterFilter =>
    /\ \A j \in DOMAIN inst_all :
         LET i == inst_all[j]
             key == << i.principalId, i.roleDefinitionId >>
         IN /\ (i.startDateTime.kind = "ok"
                  /\ i.startDateTime.t < NowT - 30 * 24 * 60)
                 => /\ i.id \notin Ids(inst)
                    /\ i.id \notin Ids(long_acts)
            /\ (i.startDateTime.kind = "ok"
                  /\ i.startDateTime.t = NowT - 30 * 24 * 60)
                 => /\ i.id \in Ids(inst)
                    /\ pc \in AfterInstKeys => key \in inst_keys
                    /\ pc \in AfterRecentKeys => key \in recent_keys
                    /\ pc \in AfterLong =>
                         \E n \in DOMAIN rn.long : inst[n].id = i.id
    /\ inst_keys \subseteq WindowKeys
    /\ recent_keys \subseteq WindowKeys

\* the run is over; one instance of the directory started a minute before
\* the window and another, with a key of its own, exactly at its bound
C4_Witness ==
  /\ pc = "done"
  /\ \E j, n \in DOMAIN inst_all :
       /\ inst_all[j].startDateTime = At(SinceT - 1)
       /\ inst_all[n].startDateTime = At(SinceT)
       /\ inst_all[j].roleDefinitionId # inst_all[n].roleDefinitionId
       /\ inst_keys = {<< inst_all[n].principalId, inst_all[n].roleDefinitionId >>}

\* no step of the three classification loops ends the run: a run that ended
\* in a fetch error had not begun to classify
NoAbortInLoops == pc = "fetch_failed" => rn = NoRn

\* C5: an in-window instance resolved to a privileged name, with a start and
\* an end that both parse, is in long_acts exactly when end - start is more
\* than 8 hours: not at 8 hours sharp, and at 9 h 30 min with hours 9.5; with
\* a missing or unparseable start or end it is left out and the run goes on.
C5_LongActivation ==
  /\ \A j \in DOMAIN rn.long :
       LET i == inst[j]
           s == i.startDateTime
           e == i.endDateTime
       IN rn.long[j].name \in PRIV_ROLES =>
            /\ (s.kind = "ok" /\ e.kind = "ok") =>
                 /\ i.id \in Ids(long_acts) <=> e.t - s.t > 8 * 60
                 /\ e.t - s.t = 8 * 60 => i.id \notin Ids(long_acts)
                 /\ e.t - s.t = 9 * 60 + 30 =>
                      /\ i.id \in Ids(long_acts)
                      /\ Entry(long_acts, i.id).hours = 950
            /\ (s.kind # "ok" \/ e.kind # "ok") => i.id \notin Ids(long_acts)
  /\ NoAbortInLoops

\* the run is over; of two privileged in-window activations, the one of 9.5
\* hours is in long_acts and the one of 8 hours is not
C5_Witness ==
  /\ pc = "done"
  /\ \E j, n \in DOMAIN rn.long :
       /\ rn.long[j].name \in PRIV_ROLES /\ rn.long[n].name \in PRIV_ROLES
       /\ inst[j].endDateTime.t - inst[j].startDateTime.t = 570
       /\ inst[n].endDateTime.t - inst[n].startDateTime.t = 480
       /\ inst[j].id \in Ids(long_acts)
       /\ inst[n].id \notin Ids(long_acts)

\* the run is over; a privileged in-window activation with an unparseable
\* end was looked at and left out
C5_WitnessSkipped ==
  /\ pc = "done"
  /\ \E j \in DOMAIN rn.long :
       /\ rn.long[j].name \in PRIV_ROLES
       /\ inst[j].endDateTime.kind = "bad"

\* what a record's list is when its role name resolves: the list of its
\* collection, when the role is privileged and the list's condition holds
WouldBeListed(coll, x) ==
  /\ DisplayName(x.roleDefinitionId) \in PRIV_ROLES
  /\ CASE coll = "assign" -> << x.principalId, x.roleDefinitionId >> \notin WindowKeys
       [] coll = "elig" -> << x.principalId, x.roleDefinitionId >> \notin WindowKeys
       [] OTHER -> /\ x.startDateTime.kind = "ok" /\ x.endDateTime.kind = "ok"
                   /\ x.endDateTime.t - x.startDateTime.t > 8 * 60

ListOf(coll) ==
  CASE coll = "assign" -> permanent [] coll = "elig" -> stale [] OTHER -> long_acts

\* the records the three loops have looked at, each with what role_name
\* returned for it
Classified ==
  { [coll |-> "assign", rec |-> assignments[j], res |-> rn.perm[j]] :
      j \in DOMAIN rn.perm }
  \cup { [coll |-> "elig", rec |-> eligibles[j], res |-> rn.stale[j]] :
           j \in DOMAIN rn.stale }
  \cup { [coll |-> "inst", rec |-> inst[j], res |-> rn.long[j]] :
           j \in DOMAIN rn.long }

\* C6 as claimed: a record whose per-id lookup failed is still in its list,
\* with the raw role-definition id as its role.
C6_ListedDespiteFailure ==
  \A c \in Classified :
    (c.res.src = "fallback" /\ WouldBeListed(c.coll, c.rec)) =>
      /\ c.rec.id \in Ids(ListOf(c.coll))
      /\ Entry(ListOf(c.coll), c.rec.id).role = c.rec.roleDefinitionId

\* C6, amended: when the per-id lookup fails role_name returns the raw id,
\* which is not empty, and the run goes on; the record is in its list only
\* if the raw id is itself one of PRIV_ROLES (and the list's condition
\* holds), and then its role is the raw id.
C6_FallbackIsRawId ==
  /\ \A c \in Classified :
       c.res.src = "fallback" =>
         /\ c.res.name = c.rec.roleDefinitionId
         /\ c.res.name # ""
         /\ c.rec.id \in Ids(ListOf(c.coll)) =>
              /\ c.rec.roleDefinitionId \in PRIV_ROLES
              /\ Entry(ListOf(c.coll), c.rec.id).role = c.rec.roleDefinitionId
         /\ c.rec.roleDefinitionId \notin PRIV_ROLES => ~Listed(c.rec.id)
  /\ NoAbortInLoops

\* the run is over; the lookup failed for a Global Administrator assignment
\* with no in-window instance, which is therefore in no list
C6_Witness ==
  /\ pc = "done"
  /\ \E c \in Classified :
       /\ c.coll = "assign"
       /\ c.res.src = "fallback"
       /\ WouldBeListed(c.coll, c.rec)
       /\ ~Listed(c.rec.id)

\* C7: in gget_all, the request after a 429 is the throttled request again,
\* with the same URL and the same query parameters, and the list returned is
\* what the directory holds under the path and the parameters of the call,
\* every page once and in order.
C7_RetrySamePage ==
  /\ g.prev.status = 429 =>
       /\ g.last.url = g.prev.url
       /\ g.last.params = g.prev.params
  /\ pc = "returned" => g.items = Content(g.last.url.path, g.params0)

\* C7 for the calls main() makes, which pass no query parameters
C7_RetrySamePageNoParams == g.params0 = NoParams => C7_RetrySamePage

\* C8: once a request for the assignments, the eligibilities or the
\* instances is answered with a status >= 400 other than 429, the run has
\* ended there: gget_all gave no items back, no snapshot and no export was
\* written, no ticket was created or dry-run, and the run does nothing more.
C8_FetchErrorAborts ==
  /\ [](( /\ g.last.status >= 400 /\ g.last.status # 429
          /\ g.last.url.path \in {"assign", "elig", "inst"} )
        => /\ pc = "fetch_failed"
           /\ g.items = <<>> /\ ~g.live
           /\ ~out.snapshot /\ ~out.csv /\ out.posts = 0 /\ out.dry = 0
           /\ permanent = <<>> /\ stale = <<>> /\ long_acts = <<>>)
  /\ [][pc # "fetch_failed"]_vars

\* the fetch of the instances failed after the assignments had been fetched
C8_Witness ==
  /\ pc = "fetch_failed"
  /\ g.last.status = 500
  /\ g.last.url.path = "inst"
  /\ Len(assignments) > 0

\* C9: when the whoami call is answered 401, the repository is not reachable
\* or its issue tracking is off, gh_self_check returns False; gh_ok then
\* stays False for the run, no POST is made while it is False, and a run that
\* gets to its end has written the snapshot and the exports and has dry-run
\* one ticket per violation record.
C9_TicketGate ==
  /\ [][ ( \/ (pc = "gh_whoami" /\ r.status = 401)
           \/ (pc = "gh_repo" /\ (r.status >= 400 \/ ~r.has_issues)) )
         => (gh_ok' = FALSE /\ pc' = "fetch_assign") ]_vars
  /\ [][ (pc \notin {"gh_self_check", "gh_whoami", "gh_repo"} /\ run' = run)
         => gh_ok' = gh_ok ]_vars
  /\ [][ ~gh_ok => out'.posts = out.posts \/ run' # run ]_vars
  /\ [](out.posts > 0 => gh_ok)
  /\ []((pc = "done" /\ ~gh_ok) =>
          /\ out.snapshot /\ out.csv
          /\ out.posts = 0
          /\ out.dry = Len(permanent) + Len(stale) + Len(long_acts))

\* the repository answered that its issue tracking is off
C9_Witness == pc = "gh_repo" /\ r.status = 200 /\ ~r.has_issues

\* a run without tickets got to its end with two dry runs
C9_WitnessDryRun == pc = "done" /\ ~gh_ok /\ out.dry = 2 /\ out.snapshot

\* every name role_name has returned in this run, per role-definition id
Returned(id) ==
  { c.res : c \in { x \in Classified : x.rec.roleDefinitionId = id } }
  \cup { rn.metrics_a[j] : j \in { n \in DOMAIN rn.metrics_a :
                                     assignments[n].roleDefinitionId = id } }
  \cup { rn.metrics_e[j] : j \in { n \in DOMAIN rn.metrics_e :
                                     eligibles[n].roleDefinitionId = id } }

\* C10 as claimed: all calls of role_name for one id return the same name,
\* and the metrics count a record as privileged exactly when its
\* classification loop took it for privileged.
C10_SameNameEveryCall ==
  /\ \A id \in RoleIds : \A x, y \in Returned(id) : x.name = y.name
  /\ \A j \in DOMAIN rn.metrics_a :
       rn.metrics_a[j].name \in PRIV_ROLES <=> rn.perm[j].name \in PRIV_ROLES
  /\ \A j \in DOMAIN rn.metrics_e :
       rn.metrics_e[j].name \in PRIV_ROLES <=> rn.stale[j].name \in PRIV_ROLES

\* C10, amended: a cache entry once set is not removed or changed within a
\* run; every call of role_name that finds the id cached, or whose lookup
\* succeeds, returns the cached name, and a call whose lookup fails returns
\* the raw id and caches nothing; the metrics resolve a record to the name
\* its classification loop resolved it to whenever that lookup did not fail.
C10_CacheStable ==
  /\ [][ run' = run =>
           \A id \in RoleIds : cache[id] # NoName => cache'[id] = cache[id] ]_vars
  /\ [](\A id \in RoleIds : \A x \in Returned(id) :
          /\ x.src \in {"cache", "fetched"} => x.name = cache[id]
          /\ x.src = "fallback" => (x.name = id /\ cache[id] # id))
  /\ [](\A j \in DOMAIN rn.metrics_a :
          rn.perm[j].src # "fallback" => rn.metrics_a[j].name = rn.perm[j].name)
  /\ [](\A j \in DOMAIN rn.metrics_e :
          rn.stale[j].src # "fallback" => rn.metrics_e[j].name = rn.stale[j].name)

\* the run is over; an assignment's role was looked up and cached in the
\* classification loop and came from the cache for the metrics
C10_Witness ==
  /\ pc = "done"
  /\ \E j \in DOMAIN rn.metrics_a :
       /\ rn.perm[j].src = "fetched"
       /\ rn.metrics_a[j].src = "cache"
       /\ rn.metrics_a[j].name = "Global Administrator"

====
